---- MODULE Spec2Model ----
(***************************************************************************)
(* Model of src/src/collect_data.py: the BLS collector.  One ingestion run *)
(* (main) loads the persisted table, fetches every series of the catalog   *)
(* one request at a time, parses the responses, merges the new records     *)
(* into the table (append_new_data) and saves it.                          *)
(*                                                                         *)
(* The specifications:                                                     *)
(*   Spec         the ingestion runs, one after the other, over one file;  *)
(*   SpecMerge    append_new_data as a pure function over bounded inputs;  *)
(*   SpecPersist  save_data and load_existing_data over bounded tables;    *)
(*   SpecParse    parse_bls_data, and main's conversion of its records;    *)
(*   SpecExport   the dashboard's filter and download (src/app.py).        *)
(***************************************************************************)
EXTENDS Integers, Sequences, FiniteSets, TLC

VARIABLES
    \* ---- the ingestion run (Spec) ----
    pc,            \* position of main: start, fetch, parse, collected, merged, done, crashed
    file_exists,   \* os.path.exists(output_path)
    file,          \* the rows of data/processed/labor_stats.csv (dates as text)
    api_key,       \* os.getenv('BLS_API_KEY'): TRUE when a key is set
    existing_df,   \* main's existing_df
    start_year,    \* main's start_year
    idx,           \* collect_all_series: position in the catalog (1-based)
    use_key,       \* fetch_bls_data_single: the api_key of the current invocation
    response,      \* fetch_bls_data_single: the answer to the last request
    json_data,     \* collect_all_series: what fetch_bls_data_single returned
    all_data,      \* collect_all_series: the records collected so far
    final_df,      \* main's final_df
    raised,        \* the exception that ended the run ("none" when there is none)
    net_log,       \* the run's network requests and time.sleep calls, in order
    \* ---- append_new_data alone (SpecMerge) ----
    m_pc,          \* "call" before the call, "returned" after it
    m_existing,    \* the existing_df argument
    m_new,         \* the new_df argument
    m_result,      \* the outcome of the call
    m_again,       \* the outcome of the call repeated on the result and new_df
    \* ---- save_data and load_existing_data alone (SpecPersist) ----
    p_pc,          \* "start", "saved", "loaded"
    p_table,       \* the table to save
    p_file_exists, \* os.path.exists(filepath)
    p_file,        \* the rows of the file
    p_loaded,      \* what load_existing_data returned
    \* ---- parse_bls_data alone (SpecParse) ----
    q_pc,          \* "call", "parsed", "converted", "raised"
    q_data,        \* json_data['Results']['series'][0]['data']
    q_series,      \* the catalog entry whose series_id and series_name are passed
    q_records,     \* what parse_bls_data returned
    q_rows,        \* the rows of main's new_df, its dates converted
    q_raised,      \* the exception raised ("none" when there is none)
    \* ---- the dashboard (SpecExport) ----
    x_pc,          \* "start", "loaded", "filtered", "exported", "stopped", "raised"
    x_file,        \* the rows of data/processed/labor_stats.csv
    x_df,          \* main's df
    x_date_range,  \* what st.date_input returned
    x_selected,    \* what st.multiselect returned
    x_filtered,    \* main's filtered_df
    x_csv          \* the data of the download button

vars == <<pc, file_exists, file, api_key, existing_df, start_year, idx, use_key,
          response, json_data, all_data, final_df, raised, net_log,
          m_pc, m_existing, m_new, m_result, m_again,
          p_pc, p_table, p_file_exists, p_file, p_loaded,
          q_pc, q_data, q_series, q_records, q_rows, q_raised,
          x_pc, x_file, x_df, x_date_range, x_selected, x_filtered, x_csv>>

run_vars == <<pc, file_exists, file, api_key, existing_df, start_year, idx, use_key,
              response, json_data, all_data, final_df, raised, net_log>>

merge_vars == <<m_pc, m_existing, m_new, m_result, m_again>>

persist_vars == <<p_pc, p_table, p_file_exists, p_file, p_loaded>>

parse_vars == <<q_pc, q_data, q_series, q_records, q_rows, q_raised>>

export_vars == <<x_pc, x_file, x_df, x_date_range, x_selected, x_filtered, x_csv>>

\* what an ingestion run leaves alone
aside_vars == <<merge_vars, persist_vars, parse_vars, export_vars>>

(***************************************************************************)
(* Bounds of the model.                                                    *)
(***************************************************************************)
\* months of the year the remote service and the tables range over
MaxMonth == 2
\* data entries in one response
MaxItems == 1
\* rows of the existing_df argument in SpecMerge
MaxExisting == 2
\* rows of the new_df argument in SpecMerge
MaxIncoming == 2
\* rows, and months, of the table saved in SpecPersist
MaxSaved == 3
MaxSavedMonth == 3
\* data entries, and months, of the response parsed in SpecParse
MaxEntries == 3
MaxEntryMonth == 2
\* rows, and months, of the file the dashboard loads in SpecExport
MaxShown == 2
MaxShownMonth == 2

(***************************************************************************)
(* The series catalog, abridged to its first two entries.                  *)
(***************************************************************************)
SERIES_IDS ==
    << [series_name |-> "Total Nonfarm Employment", series_id |-> "CES0000000001"],
       [series_name |-> "Unemployment Rate",        series_id |-> "LNS14000000"] >>

total_series == Len(SERIES_IDS)

(***************************************************************************)
(* Text and its conversions.  A period code is "M" and two digits; a date  *)
(* text is <<year, month, day>>, each the text between the dashes; a       *)
(* Timestamp is the count of months since year 0 (all days are the 1st).   *)
(***************************************************************************)
PERIOD_CODES == <<"M01", "M02", "M03", "M04", "M05", "M06",
                  "M07", "M08", "M09", "M10", "M11", "M12">>

TWO_DIGITS == <<"01", "02", "03", "04", "05", "06",
                "07", "08", "09", "10", "11", "12">>

PERIOD_NAMES == <<"January", "February", "March", "April", "May", "June", "July",
                  "August", "September", "October", "November", "December">>

Years == {"2024"}

\* int(item['year'])
int(s) == CASE s = "2024" -> 2024

NumericText == {"3.5", "4.1"}

\* float(item['value']), in tenths; float("-") raises ValueError
float(s) == CASE s = "3.5" -> 35 [] s = "4.1" -> 41

\* the period code of an annual average
ANNUAL == "M13"

\* a period code of a month
Monthly(p) == \E m \in 1..12 : PERIOD_CODES[m] = p

\* item['period'][1:]
PeriodSuffix(p) ==
    IF p = ANNUAL THEN "13" ELSE TWO_DIGITS[CHOOSE m \in 1..12 : PERIOD_CODES[m] = p]

\* a faulty variant: the date text is year-day-month
DateTextDayFirst(year, period) == <<year, "01", PeriodSuffix(period)>>

\* f"{item['year']}-{item['period'][1:]}-01"
DateText(year, period) == <<year, PeriodSuffix(period), "01">>

\* pd.to_datetime raises ValueError: the month is not one of 01..12
to_datetime_raises(t) == \A m \in 1..12 : TWO_DIGITS[m] # t[2]

\* pd.to_datetime of one date text
to_datetime(t) ==
    int(t[1]) * 12 + (CHOOSE m \in 1..12 : TWO_DIGITS[m] = t[2]) - 1

\* Timestamp.year
YearOf(ts) == ts \div 12

\* to_csv's text of a Timestamp: YYYY-MM-DD
DateToCsv(ts) ==
    << CHOOSE y \in Years : int(y) = YearOf(ts), TWO_DIGITS[(ts % 12) + 1], "01" >>

(***************************************************************************)
(* DataFrames: the rows in order, and whether the frame has its columns    *)
(* (pd.DataFrame() and pd.DataFrame([]) have none).                        *)
(***************************************************************************)
\* pd.DataFrame(records)
DataFrame(records) == [cols |-> records # <<>>, rows |-> records]

\* df.empty
Empty(df) == ~df.cols \/ df.rows = <<>>

RECURSIVE MaxOf(_)
MaxOf(S) ==
    LET x == CHOOSE y \in S : TRUE
    IN  IF S = {x} THEN x
        ELSE LET m == MaxOf(S \ {x}) IN IF x > m THEN x ELSE m

RECURSIVE MinOf(_)
MinOf(S) ==
    LET x == CHOOSE y \in S : TRUE
    IN  IF S = {x} THEN x
        ELSE LET m == MinOf(S \ {x}) IN IF x < m THEN x ELSE m

Dates(rows) == {rows[i].date : i \in 1..Len(rows)}

NoDate == -1

get_latest_date(df) ==
    IF Empty(df) THEN NoDate ELSE MaxOf(Dates(df.rows))

RECURSIVE SelectRows(_, _)
SelectRows(rows, latest_date) ==
    IF rows = <<>> THEN <<>>
    ELSE IF Head(rows).date > latest_date
         THEN <<Head(rows)>> \o SelectRows(Tail(rows), latest_date)
         ELSE SelectRows(Tail(rows), latest_date)

\* >= in place of >
RECURSIVE SelectRowsAtOrAfter(_, _)
SelectRowsAtOrAfter(rows, latest_date) ==
    IF rows = <<>> THEN <<>>
    ELSE IF Head(rows).date >= latest_date
         THEN <<Head(rows)>> \o SelectRowsAtOrAfter(Tail(rows), latest_date)
         ELSE SelectRowsAtOrAfter(Tail(rows), latest_date)

\* a faulty variant: the filter keeps the rows at the watermark too
FilterAtOrAfter(rows, latest_date) == SelectRowsAtOrAfter(rows, latest_date)

\* new_df[new_df['date'] > latest_date], new_df having its columns
FilterAfter(rows, latest_date) == SelectRows(rows, latest_date)

\* df.sort_values('date'): the default sort is not stable, so rows of one
\* date come out in any order
RECURSIVE Orderings(_, _)
Orderings(rows, I) ==
    IF I = {} THEN {<<>>}
    ELSE LET d == MinOf({rows[i].date : i \in I})
         IN  UNION { { <<rows[i]>> \o t : t \in Orderings(rows, I \ {i}) }
                     : i \in {j \in I : rows[j].date = d} }

sort_values(rows) == Orderings(rows, 1..Len(rows))

SameKey(r, s) == r.date = s.date /\ r.series_id = s.series_id

\* drop_duplicates(subset=['date', 'series_id'], keep='last')
RECURSIVE drop_duplicates(_)
drop_duplicates(rows) ==
    IF rows = <<>> THEN <<>>
    ELSE IF \E i \in 2..Len(rows) : SameKey(rows[i], Head(rows))
         THEN drop_duplicates(Tail(rows))
         ELSE <<Head(rows)>> \o drop_duplicates(Tail(rows))

Returned(df) == [raised |-> "none", df |-> df]
Raised(e) == [raised |-> e, df |-> [cols |-> FALSE, rows |-> <<>>]]

\* a faulty variant: the first run de-duplicates what it passes through
FirstRunDeduplicated(new_df) == [new_df EXCEPT !.rows = drop_duplicates(new_df.rows)]

\* if existing_df.empty: return new_df
FirstRun(new_df) == new_df

\* the outcomes of append_new_data(existing_df, new_df)
append_new_data(existing_df_, new_df) ==
    IF Empty(existing_df_) THEN { Returned(FirstRun(new_df)) }
    ELSE
      LET latest_date == get_latest_date(existing_df_) IN
      IF ~new_df.cols THEN { Raised("KeyError") }   \* new_df['date']
      ELSE
        LET new_records == FilterAfter(new_df.rows, latest_date) IN
        IF Len(new_records) = 0 THEN { Returned(existing_df_) }
        ELSE { Returned([cols |-> TRUE, rows |-> drop_duplicates(combined)])
               : combined \in sort_values(existing_df_.rows \o new_records) }

(***************************************************************************)
(* The remote service's responses and parse_bls_data.                      *)
(***************************************************************************)
Periods == {PERIOD_CODES[m] : m \in 1..MaxMonth}

PeriodName(p) == PERIOD_NAMES[CHOOSE m \in 1..12 : PERIOD_CODES[m] = p]

\* the value texts the service sends: a number, and "-" for a value it does
\* not have
RawValues == {"3.5", "-"}

\* one entry of series['data']
Items == { [year |-> y, period |-> p, periodName |-> PeriodName(p), value |-> v]
           : y \in Years, p \in Periods, v \in RawValues }

\* json_data['Results']['series'][0]['data'] of a REQUEST_SUCCEEDED response
Payloads == UNION { [1..n -> Items] : n \in 0..MaxItems }

NoJson == [ok |-> FALSE, data |-> <<>>]

\* one record of parse_bls_data, float() having succeeded
Record(item, series_id, series_name) ==
    [ date        |-> DateText(item.year, item.period),
      series_id   |-> series_id,
      series_name |-> series_name,
      value       |-> float(item.value),
      year        |-> int(item.year),
      period      |-> item.period,
      period_name |-> item.periodName ]

\* float(item['value']) raises ValueError on some entry
parse_raises(data) == \E i \in 1..Len(data) : data[i].value \notin NumericText

parse_bls_data(data, series_id, series_name) ==
    [i \in 1..Len(data) |-> Record(data[i], series_id, series_name)]

(***************************************************************************)
(* Persistence: to_csv and read_csv + to_datetime, row by row.             *)
(***************************************************************************)
FloatToCsv(v) == CASE v = 35 -> "3.5" [] v = 41 -> "4.1"

IntToCsv(n) == CHOOSE y \in Years : int(y) = n

\* df.to_csv(filepath, index=False)
to_csv(df) ==
    [i \in 1..Len(df.rows) |->
        [df.rows[i] EXCEPT !.date  = DateToCsv(df.rows[i].date),
                           !.value = FloatToCsv(df.rows[i].value),
                           !.year  = IntToCsv(df.rows[i].year)]]

\* a faulty variant: the dates are read day first (year-day-month)
read_csv_dayfirst(lines) ==
    [cols |-> TRUE,
     rows |-> [i \in 1..Len(lines) |->
                 [lines[i] EXCEPT !.date  = to_datetime(<<lines[i].date[1], lines[i].date[3],
                                                          lines[i].date[2]>>),
                                  !.value = float(lines[i].value),
                                  !.year  = int(lines[i].year)]]]

\* pd.read_csv(filepath), then df['date'] = pd.to_datetime(df['date'])
read_csv(lines) ==
    [cols |-> TRUE,
     rows |-> [i \in 1..Len(lines) |->
                 [lines[i] EXCEPT !.date  = to_datetime(lines[i].date),
                                  !.value = float(lines[i].value),
                                  !.year  = int(lines[i].year)]]]

NoFrame == [cols |-> FALSE, rows |-> <<>>]

load_existing_data(exists, lines) ==
    IF exists THEN read_csv(lines) ELSE NoFrame

\* pd.to_datetime(new_df['date']) raises on some record
convert_raises(records) == \E i \in 1..Len(records) : to_datetime_raises(records[i].date)

\* new_df['date'] = pd.to_datetime(new_df['date'])
ConvertDates(records) ==
    [i \in 1..Len(records) |-> [records[i] EXCEPT !.date = to_datetime(records[i].date)]]

(***************************************************************************)
(* The ingestion run.                                                      *)
(***************************************************************************)
NO_RESPONSE  == "none"
HTTP_ERROR   == "status_code 500"
NOT_SUCCEEDED == "status_code 200, status REQUEST_NOT_PROCESSED"
SUCCEEDED    == "status_code 200, status REQUEST_SUCCEEDED"

POST_V2 == "POST v2 with registrationkey"
POST_V1 == "POST v1"
SLEEP   == "sleep 1s"

IsPost(e) == e \in {POST_V1, POST_V2}

RunInit ==
    /\ pc = "start"
    /\ file_exists = FALSE
    /\ file = <<>>
    /\ api_key = FALSE
    /\ existing_df = NoFrame
    /\ start_year = 2020
    /\ idx = 1
    /\ use_key = FALSE
    /\ response = NO_RESPONSE
    /\ json_data = NoJson
    /\ all_data = <<>>
    /\ final_df = NoFrame
    /\ raised = "none"
    /\ net_log = <<>>

MergeIdle ==
    /\ m_pc = "idle"
    /\ m_existing = NoFrame
    /\ m_new = NoFrame
    /\ m_result = Returned(NoFrame)
    /\ m_again = Returned(NoFrame)

PersistIdle ==
    /\ p_pc = "idle"
    /\ p_table = NoFrame
    /\ p_file_exists = FALSE
    /\ p_file = <<>>
    /\ p_loaded = NoFrame

ParseIdle ==
    /\ q_pc = "idle"
    /\ q_data = <<>>
    /\ q_series = 1
    /\ q_records = <<>>
    /\ q_rows = <<>>
    /\ q_raised = "none"

ExportIdle ==
    /\ x_pc = "idle"
    /\ x_file = <<>>
    /\ x_df = NoFrame
    /\ x_date_range = <<>>
    /\ x_selected = {}
    /\ x_filtered = NoFrame
    /\ x_csv = <<>>

Init == RunInit /\ MergeIdle /\ PersistIdle /\ ParseIdle /\ ExportIdle

\* main, up to the call of collect_all_series; a run starts when the one
\* before it has ended
Load ==
    /\ pc \in {"start", "done", "crashed"}
    /\ \E key \in BOOLEAN :
         /\ api_key' = key
         /\ use_key' = key
    /\ existing_df' = load_existing_data(file_exists, file)
    /\ start_year' = IF Empty(existing_df') THEN 2020
                     ELSE YearOf(get_latest_date(existing_df'))
    /\ idx' = 1
    /\ response' = NO_RESPONSE
    /\ json_data' = NoJson
    /\ all_data' = <<>>
    /\ final_df' = NoFrame
    /\ raised' = "none"
    /\ net_log' = <<>>
    /\ pc' = "fetch"
    /\ UNCHANGED <<file_exists, file>>
    /\ UNCHANGED aside_vars

\* a faulty variant: a rejected request is retried with the same key
RetryKeySame(key) == key

\* the api_key of the retry: fetch_bls_data_single(..., api_key=None)
RetryKey(key) == FALSE

\* fetch_bls_data_single: one request and what the code does with its answer.
\* The remote service answers as it pleases.
Fetch ==
    /\ pc = "fetch"
    /\ net_log' = Append(net_log, IF use_key THEN POST_V2 ELSE POST_V1)
    /\ \/ \* requests.post raises: nothing catches it
          /\ raised' = "ConnectionError"
          /\ pc' = "crashed"
          /\ UNCHANGED <<use_key, response, json_data>>
       \/ \* response.status_code != 200: return None
          /\ response' = HTTP_ERROR
          /\ json_data' = NoJson
          /\ pc' = "parse"
          /\ UNCHANGED <<use_key, raised>>
       \/ \* json_data['status'] != 'REQUEST_SUCCEEDED', a key was used: the
          \* function calls itself with api_key=None
          /\ use_key
          /\ response' = NOT_SUCCEEDED
          /\ use_key' = RetryKey(use_key)
          /\ UNCHANGED <<pc, json_data, raised>>
       \/ \* json_data['status'] != 'REQUEST_SUCCEEDED', no key: return None
          /\ ~use_key
          /\ response' = NOT_SUCCEEDED
          /\ json_data' = NoJson
          /\ pc' = "parse"
          /\ UNCHANGED <<use_key, raised>>
       \/ \* REQUEST_SUCCEEDED: return json_data
          /\ response' = SUCCEEDED
          /\ \E data \in Payloads : json_data' = [ok |-> TRUE, data |-> data]
          /\ pc' = "parse"
          /\ UNCHANGED <<use_key, raised>>
    /\ UNCHANGED <<file_exists, file, api_key, existing_df, start_year, idx,
                   all_data, final_df>>
    /\ UNCHANGED aside_vars

\* if idx < total_series: time.sleep(1)
SleepBetween(i) == i < total_series

\* collect_all_series: the rest of the loop body, after the fetch returned
Parse ==
    /\ pc = "parse"
    /\ IF json_data.ok /\ parse_raises(json_data.data)
       THEN /\ raised' = "ValueError"
            /\ pc' = "crashed"
            /\ UNCHANGED <<all_data, net_log, idx, use_key, response>>
       ELSE /\ all_data' = IF json_data.ok
                           THEN all_data \o parse_bls_data(json_data.data,
                                                           SERIES_IDS[idx].series_id,
                                                           SERIES_IDS[idx].series_name)
                           ELSE all_data
            /\ net_log' = IF SleepBetween(idx) THEN Append(net_log, SLEEP) ELSE net_log
            /\ idx' = idx + 1
            /\ use_key' = api_key
            /\ response' = NO_RESPONSE
            /\ pc' = IF idx < total_series THEN "fetch" ELSE "collected"
            /\ UNCHANGED raised
    /\ UNCHANGED <<file_exists, file, api_key, existing_df, start_year, json_data, final_df>>
    /\ UNCHANGED aside_vars

\* a faulty variant: the run goes on with no record
NoRecordsNever(records) == FALSE

\* if not all_records
NoRecords(records) == records = <<>>

\* main, from the return of collect_all_series to final_df
Merge ==
    /\ pc = "collected"
    /\ IF NoRecords(all_data)
       THEN /\ pc' = "done"
            /\ UNCHANGED <<final_df, raised>>
       ELSE IF ~DataFrame(all_data).cols
       THEN \* new_df['date'] of a frame with no columns
            /\ pc' = "crashed"
            /\ raised' = "KeyError"
            /\ UNCHANGED final_df
       ELSE IF convert_raises(all_data)
       THEN /\ pc' = "crashed"
            /\ raised' = "ValueError"
            /\ UNCHANGED final_df
       ELSE \E new_rows \in sort_values(ConvertDates(all_data)) :
              \E out \in append_new_data(existing_df, [cols |-> TRUE, rows |-> new_rows]) :
                 /\ final_df' = out.df
                 /\ raised' = out.raised
                 /\ pc' = IF out.raised = "none" THEN "merged" ELSE "crashed"
    /\ UNCHANGED <<file_exists, file, api_key, existing_df, start_year, idx, use_key,
                   response, json_data, all_data, net_log>>
    /\ UNCHANGED aside_vars

\* main's save_data(final_df, output_path)
Save ==
    /\ pc = "merged"
    /\ file' = to_csv(final_df)
    /\ file_exists' = TRUE
    /\ pc' = "done"
    /\ UNCHANGED <<api_key, existing_df, start_year, idx, use_key, response, json_data,
                   all_data, final_df, raised, net_log>>
    /\ UNCHANGED aside_vars

Next == Load \/ Fetch \/ Parse \/ Merge \/ Save

Spec == Init /\ [][Next]_vars

(***************************************************************************)
(* append_new_data alone, over every pair of frames within the bounds.     *)
(* The tables of the program are sorted by date (main sorts new_df, and    *)
(* every table saved came out of a sort), so the arguments are.            *)
(***************************************************************************)
Timestamps == { to_datetime(DateText(y, p)) : y \in Years, p \in Periods }

TableRows ==
    { [ConvertDates(<<Record(item, SERIES_IDS[s].series_id, SERIES_IDS[s].series_name)>>)[1]
         EXCEPT !.value = v]
      : item \in {it \in Items : it.value = "3.5"}, s \in 1..total_series,
        v \in {float(t) : t \in NumericText} }

SortedByDate(rows) == \A i \in 1..Len(rows) - 1 : rows[i].date <= rows[i + 1].date

Tables(n) == { rows \in UNION { [1..k -> TableRows] : k \in 0..n } : SortedByDate(rows) }

\* a frame of the rows given; of no rows, with its columns or without
Frames(n) == { [cols |-> c, rows |-> rows] : c \in BOOLEAN, rows \in Tables(n) }
             \ { [cols |-> FALSE, rows |-> rows] : rows \in Tables(n) \ {<<>>} }

MergeInit ==
    /\ RunInit /\ PersistIdle /\ ParseIdle /\ ExportIdle
    /\ m_pc = "call"
    /\ m_existing \in Frames(MaxExisting)
    /\ m_new \in Frames(MaxIncoming)
    /\ m_result = Returned(NoFrame)
    /\ m_again = Returned(NoFrame)

Call ==
    /\ m_pc = "call"
    /\ m_result' \in append_new_data(m_existing, m_new)
    /\ m_pc' = "returned"
    /\ UNCHANGED <<m_existing, m_new, m_again>>
    /\ UNCHANGED <<run_vars, persist_vars, parse_vars, export_vars>>

\* the call repeated with what it returned and the same new_df
CallAgain ==
    /\ m_pc = "returned"
    /\ m_result.raised = "none"
    /\ m_again' \in append_new_data(m_result.df, m_new)
    /\ m_pc' = "returned again"
    /\ UNCHANGED <<m_existing, m_new, m_result>>
    /\ UNCHANGED <<run_vars, persist_vars, parse_vars, export_vars>>

MergeNext == Call \/ CallAgain

SpecMerge == MergeInit /\ [][MergeNext]_vars

(***************************************************************************)
(* save_data and load_existing_data alone: a non-empty table, sorted by    *)
(* date as every table of the program is, is saved and loaded; or the      *)
(* file is loaded while it does not exist.                                 *)
(***************************************************************************)
\* the row of month m, series s and value v, as parsed and converted
TableRow(m, s, v) ==
    [ConvertDates(<<Record([year |-> "2024", period |-> PERIOD_CODES[m],
                            periodName |-> PERIOD_NAMES[m], value |-> "3.5"],
                           SERIES_IDS[s].series_id, SERIES_IDS[s].series_name)>>)[1]
       EXCEPT !.value = v]

SavedRows ==
    { TableRow(m, s, v) : m \in 1..MaxSavedMonth, s \in 1..total_series,
                          v \in {float(t) : t \in NumericText} }

SavedTables ==
    { rows \in UNION { [1..k -> SavedRows] : k \in 1..MaxSaved } : SortedByDate(rows) }

PersistInit ==
    /\ RunInit /\ MergeIdle /\ ParseIdle /\ ExportIdle
    /\ p_pc = "start"
    /\ p_table \in { [cols |-> TRUE, rows |-> rows] : rows \in SavedTables }
    /\ p_file_exists = FALSE
    /\ p_file = <<>>
    /\ p_loaded = NoFrame

\* save_data(df, filepath)
PSave ==
    /\ p_pc = "start"
    /\ p_file' = to_csv(p_table)
    /\ p_file_exists' = TRUE
    /\ p_pc' = "saved"
    /\ UNCHANGED <<p_table, p_loaded>>
    /\ UNCHANGED <<run_vars, merge_vars, parse_vars, export_vars>>

\* load_existing_data(filepath), of the file saved or of no file
PLoad ==
    /\ p_pc \in {"start", "saved"}
    /\ p_loaded' = load_existing_data(p_file_exists, p_file)
    /\ p_pc' = "loaded"
    /\ UNCHANGED <<p_table, p_file_exists, p_file>>
    /\ UNCHANGED <<run_vars, merge_vars, parse_vars, export_vars>>

PersistNext == PSave \/ PLoad

SpecPersist == PersistInit /\ [][PersistNext]_vars

(***************************************************************************)
(* parse_bls_data alone, and what main makes of its records: the entries   *)
(* of a response, monthly and annual (M13), with values that are numbers   *)
(* or "-", are parsed for one series; main builds the frame of the records *)
(* and converts their dates.                                               *)
(***************************************************************************)
EntryPeriods == {PERIOD_CODES[m] : m \in 1..MaxEntryMonth} \cup {ANNUAL}

EntryName(p) == IF p = ANNUAL THEN "Annual" ELSE PeriodName(p)

Entries == { [year |-> y, period |-> p, periodName |-> EntryName(p), value |-> v]
             : y \in Years, p \in EntryPeriods, v \in NumericText \cup RawValues }

ParseInit ==
    /\ RunInit /\ MergeIdle /\ PersistIdle /\ ExportIdle
    /\ q_pc = "call"
    /\ q_data \in UNION { [1..n -> Entries] : n \in 0..MaxEntries }
    /\ q_series \in 1..total_series
    /\ q_records = <<>>
    /\ q_rows = <<>>
    /\ q_raised = "none"

\* parse_bls_data(json_data, series_id, series_name)
ParseCall ==
    /\ q_pc = "call"
    /\ IF parse_raises(q_data)
       THEN /\ q_raised' = "ValueError"
            /\ q_pc' = "raised"
            /\ UNCHANGED q_records
       ELSE /\ q_records' = parse_bls_data(q_data, SERIES_IDS[q_series].series_id,
                                           SERIES_IDS[q_series].series_name)
            /\ q_pc' = "parsed"
            /\ UNCHANGED q_raised
    /\ UNCHANGED <<q_data, q_series, q_rows>>
    /\ UNCHANGED <<run_vars, merge_vars, persist_vars, export_vars>>

\* main: new_df = pd.DataFrame(all_data); new_df['date'] = pd.to_datetime(...)
Convert ==
    /\ q_pc = "parsed"
    /\ ~NoRecords(q_records)
    /\ IF convert_raises(q_records)
       THEN /\ q_raised' = "ValueError"
            /\ q_pc' = "crashed"
            /\ UNCHANGED q_rows
       ELSE /\ q_rows' = ConvertDates(q_records)
            /\ q_pc' = "converted"
            /\ UNCHANGED q_raised
    /\ UNCHANGED <<q_data, q_series, q_records>>
    /\ UNCHANGED <<run_vars, merge_vars, persist_vars, export_vars>>

ParseNext == ParseCall \/ Convert

SpecParse == ParseInit /\ [][ParseNext]_vars

(***************************************************************************)
(* The dashboard (app.py), one run of its script: the file is loaded, the  *)
(* user's date range and selection of series are read, the table is        *)
(* filtered and its rows are offered for download.  A calendar date is     *)
(* <<Timestamp of its month, day of the month>>.                           *)
(***************************************************************************)
\* Timestamp.date()
date(ts) == <<ts, 1>>

\* the days of a month the user picks from
DaysOfMonth == {1, 15}

\* <= of two calendar dates
DateLeq(a, b) == a[1] < b[1] \/ (a[1] = b[1] /\ a[2] <= b[2])

\* st.date_input's calendar: the dates from min_value to max_value
Calendar(min_date, max_date) ==
    { c \in (min_date[1]..max_date[1]) \X DaysOfMonth :
        DateLeq(min_date, c) /\ DateLeq(c, max_date) }

\* the values st.date_input returns: one date while the range is being
\* picked, else the two ends
DateRanges(min_date, max_date) ==
    { <<a>> : a \in Calendar(min_date, max_date) } \cup
    { r \in Calendar(min_date, max_date) \X Calendar(min_date, max_date) :
        DateLeq(r[1], r[2]) }

\* a faulty variant: the end of the range is excluded
FilterRangeOpen(rows, date_range) ==
    LET Within(r) == /\ DateLeq(date_range[1], date(r.date))
                     /\ DateLeq(date(r.date), date_range[2])
                     /\ date(r.date) # date_range[2]
    IN  SelectSeq(rows, Within)

\* df[(df['date'].dt.date >= date_range[0]) & (df['date'].dt.date <= date_range[1])]
FilterRange(rows, date_range) ==
    LET Within(r) == /\ DateLeq(date_range[1], date(r.date))
                     /\ DateLeq(date(r.date), date_range[2])
    IN  SelectSeq(rows, Within)

\* filtered_df[filtered_df['series_name'].isin(selected_series)]
isin(rows, selected_series) ==
    LET Selected(r) == r.series_name \in selected_series
    IN  SelectSeq(rows, Selected)

\* filtered_df.pivot(index='date', columns='series_name', values='value')
\* raises ValueError: a date and series_name occur twice
pivot_raises(rows) ==
    \E i, j \in 1..Len(rows) :
        /\ i # j
        /\ rows[i].date = rows[j].date
        /\ rows[i].series_name = rows[j].series_name

ShownRows ==
    { TableRow(m, s, v) : m \in 1..MaxShownMonth, s \in 1..total_series,
                          v \in {float(t) : t \in NumericText} }

\* the files save_data leaves: not empty, sorted by date
ShownFiles ==
    { to_csv([cols |-> TRUE, rows |-> rows]) :
        rows \in { r \in UNION { [1..k -> ShownRows] : k \in 1..MaxShown } : SortedByDate(r) } }

ExportInit ==
    /\ RunInit /\ MergeIdle /\ PersistIdle /\ ParseIdle
    /\ \/ x_pc = "start" /\ x_file \in ShownFiles
       \/ x_pc = "start, no file" /\ x_file = <<>>
    /\ x_df = NoFrame
    /\ x_date_range = <<>>
    /\ x_selected = {}
    /\ x_filtered = NoFrame
    /\ x_csv = <<>>

\* df = load_data(); if df is None: st.stop()
load_data ==
    /\ \/ /\ x_pc = "start"
          /\ x_df' = read_csv(x_file)
          /\ x_pc' = "loaded"
       \/ /\ x_pc = "start, no file"
          /\ x_pc' = "stopped"
          /\ UNCHANGED x_df
    /\ UNCHANGED <<x_file, x_date_range, x_selected, x_filtered, x_csv>>
    /\ UNCHANGED <<run_vars, merge_vars, persist_vars, parse_vars>>

\* the sidebar's date_input and multiselect, then FILTER DATA
FilterData ==
    /\ x_pc = "loaded"
    /\ \E date_range \in DateRanges(date(MinOf(Dates(x_df.rows))),
                                     date(MaxOf(Dates(x_df.rows)))),
          selected_series \in SUBSET {x_df.rows[i].series_name : i \in 1..Len(x_df.rows)} :
          LET in_range == IF Len(date_range) = 2
                          THEN FilterRange(x_df.rows, date_range)
                          ELSE x_df.rows
          IN  /\ x_date_range' = date_range
              /\ x_selected' = selected_series
              /\ IF selected_series # {}
                 THEN /\ x_filtered' = [cols |-> TRUE,
                                        rows |-> isin(in_range, selected_series)]
                      /\ x_pc' = "filtered"
                 ELSE /\ x_filtered' = [cols |-> TRUE, rows |-> in_range]
                      /\ x_pc' = "stopped"
    /\ UNCHANGED <<x_file, x_df, x_csv>>
    /\ UNCHANGED <<run_vars, merge_vars, persist_vars, parse_vars>>

\* the Data Table tab: the pivot table, then csv = filtered_df.to_csv(index=False)
\* handed to st.download_button
Export ==
    /\ x_pc = "filtered"
    /\ IF pivot_raises(x_filtered.rows)
       THEN /\ x_pc' = "raised"
            /\ UNCHANGED x_csv
       ELSE /\ x_csv' = to_csv(x_filtered)
            /\ x_pc' = "exported"
    /\ UNCHANGED <<x_file, x_df, x_date_range, x_selected, x_filtered>>
    /\ UNCHANGED <<run_vars, merge_vars, persist_vars, parse_vars>>

ExportNext == load_data \/ FilterData \/ Export

SpecExport == ExportInit /\ [][ExportNext]_vars

(***************************************************************************)
(* The claims.                                                             *)
(***************************************************************************)
Range(s) == {s[i] : i \in 1..Len(s)}

Occurrences(r, rows) == Cardinality({i \in 1..Len(rows) : rows[i] = r})

DuplicateKeys(rows) ==
    \E i, j \in 1..Len(rows) : i # j /\ SameKey(rows[i], rows[j])

MergeReturned == m_pc = "returned" /\ m_result.raised = "none"

Last(s) == s[Len(s)]

\* C1: every table append_new_data returns, on any of its paths, has no two
\* rows with the same (date, series_id).
C1_NoDuplicateKeys ==
    MergeReturned => ~DuplicateKeys(m_result.df.rows)

\* C2: for a non-empty existing table with latest date D, the rows of
\* append_new_data's result dated at or before D are rows of the existing
\* table, no more of each than it held, and the rows dated after D are rows
\* of the incoming table: nothing of the incoming table at or before D is
\* added.
C2_WatermarkExclusion ==
    (MergeReturned /\ ~Empty(m_existing)) =>
        LET D == get_latest_date(m_existing)
            result == m_result.df.rows
        IN  \A i \in 1..Len(result) :
              IF result[i].date <= D
              THEN Occurrences(result[i], result) <= Occurrences(result[i], m_existing.rows)
              ELSE result[i] \in Range(m_new.rows)

\* an incoming row at the watermark that the table lacks, beside a newer
\* one: the result grew, and the row at the watermark is not in it
C2_Witness ==
    /\ MergeReturned
    /\ ~Empty(m_existing)
    /\ Len(m_result.df.rows) > Len(m_existing.rows)
    /\ \E i \in 1..Len(m_new.rows) :
         /\ m_new.rows[i].date = get_latest_date(m_existing)
         /\ m_new.rows[i] \notin Range(m_existing.rows)
         /\ m_new.rows[i] \notin Range(m_result.df.rows)

\* C3: for a non-empty existing table, every row of it is a row of
\* append_new_data's result, its value unchanged.
C3_ExistingRowsKept ==
    (MergeReturned /\ ~Empty(m_existing)) =>
        \A i \in 1..Len(m_existing.rows) : m_existing.rows[i] \in Range(m_result.df.rows)

\* C4: for an empty existing table, append_new_data returns the incoming
\* table as it is: the same rows, each as often, nothing filtered, added
\* or de-duplicated.
C4_FirstRunPassThrough ==
    (m_pc = "returned" /\ Empty(m_existing)) =>
        /\ m_result.raised = "none"
        /\ m_result.df.rows = m_new.rows

\* a first run whose incoming table holds one key twice
C4_Witness ==
    /\ MergeReturned
    /\ Empty(m_existing)
    /\ DuplicateKeys(m_new.rows)
    /\ m_result.df.rows = m_new.rows

\* C5: append_new_data of any table and an incoming table of no rows
\* returns, without an error, the rows of the table.
C5_EmptyIncoming ==
    (m_pc = "returned" /\ m_new.rows = <<>>) =>
        /\ m_result.raised = "none"
        /\ m_result.df.rows = m_existing.rows

\* C6: in one fetch, a request made with the key and answered "not
\* succeeded" is followed by one request without the key, and by no other;
\* a request made without the key is followed by none: two requests in a
\* row are one with the key and then one without it, and a "not succeeded"
\* answer to a request without the key is returned as a failure.
C6_RetryOnceWithoutKey ==
    /\ \A i \in 1..Len(net_log) - 1 :
         (IsPost(net_log[i]) /\ IsPost(net_log[i + 1])) =>
             (net_log[i] = POST_V2 /\ net_log[i + 1] = POST_V1)
    /\ (response = NOT_SUCCEEDED /\ pc # "crashed" /\ Last(net_log) = POST_V2) =>
           (pc = "fetch" /\ ~use_key)
    /\ (response = NOT_SUCCEEDED /\ pc # "crashed" /\ Last(net_log) = POST_V1) =>
           (pc = "parse" /\ json_data = NoJson)
    /\ (pc = "fetch" /\ net_log # <<>> /\ IsPost(Last(net_log))) =>
           (response = NOT_SUCCEEDED /\ Last(net_log) = POST_V2)

\* the key was refused, the retry without it was refused too, and the fetch
\* returned a failure
C6_Witness ==
    /\ pc = "parse"
    /\ response = NOT_SUCCEEDED
    /\ json_data = NoJson
    /\ Len(net_log) >= 2
    /\ net_log[Len(net_log) - 1] = POST_V2
    /\ Last(net_log) = POST_V1

\* C7: a transport error raised by the request for one series does not end
\* the run.
C7_TransportErrorNotFatal ==
    ~(pc = "crashed" /\ raised = "ConnectionError")

\* C8: an unparsable value in the response for one series does not end the
\* run.
C8_DataFormatErrorNotFatal ==
    ~(pc = "crashed" /\ raised = "ValueError")

\* C9: a run that collected no record ends there: it calls neither
\* append_new_data nor save_data, and the file is as it was.
C9_NoDataNoWrite ==
    [][(pc = "collected" /\ all_data = <<>>) =>
          /\ pc' = "done"
          /\ final_df' = NoFrame
          /\ file' = file
          /\ file_exists' = file_exists]_vars

\* a run over an existing file in which every series failed has ended
C9_Witness ==
    /\ pc = "done"
    /\ all_data = <<>>
    /\ file_exists
    /\ Len(net_log) >= total_series
    /\ final_df = NoFrame
    /\ file = to_csv(existing_df)

\* C10: between any two consecutive requests of a run there is a
\* time.sleep(1).
C10_Pacing ==
    \A i \in 1..Len(net_log) - 1 : ~(IsPost(net_log[i]) /\ IsPost(net_log[i + 1]))

\* C11: a non-empty table saved and loaded again is the table it was, row
\* for row; and loading while no file exists gives the empty table, not an
\* error.
C11_RoundTrip ==
    (p_pc = "loaded") =>
        IF p_file_exists
        THEN /\ p_loaded.cols
             /\ p_loaded.rows = p_table.rows
        ELSE Empty(p_loaded) /\ p_loaded.rows = <<>>

\* a table of two series and three dates has been saved and loaded
C11_Witness ==
    /\ p_pc = "loaded"
    /\ p_file_exists
    /\ Cardinality(Dates(p_table.rows)) >= 3
    /\ Cardinality({p_table.rows[i].series_id : i \in 1..Len(p_table.rows)}) >= 2
    /\ p_loaded.rows = p_table.rows

\* C12: no record is ever emitted for an entry whose period is not one of
\* M01..M12: the parser raises, or skips the entry.
C12_InvalidMonthNeverEmitted ==
    \A i \in 1..Len(q_records) : Monthly(q_records[i].period)

\* C13: the lines offered for download are exactly the lines of the loaded
\* file, as they are and in their order, whose date is within the range the
\* user gave, both ends included, and whose series_name is among the
\* selected ones (with one date given the range is not yet a range and no
\* date is excluded); nothing is offered when no series is selected.
C13_ExportIsSelection ==
    (x_pc = "exported") =>
        LET Chosen(line) ==
                /\ line.series_name \in x_selected
                /\ Len(x_date_range) = 2 =>
                      /\ DateLeq(x_date_range[1], <<to_datetime(line.date), 1>>)
                      /\ DateLeq(<<to_datetime(line.date), 1>>, x_date_range[2])
        IN  /\ x_selected # {}
            /\ x_csv = SelectSeq(x_file, Chosen)

\* a range ending on the date of a row that is offered, and a row left out
C13_Witness ==
    /\ x_pc = "exported"
    /\ Len(x_date_range) = 2
    /\ Len(x_csv) >= 1
    /\ Len(x_csv) < Len(x_file)
    /\ <<to_datetime(x_csv[Len(x_csv)].date), 1>> = x_date_range[2]

\* C14: in every run, whatever fetches failed in this run or in earlier
\* ones, each incoming record dated at or before the latest date of the
\* existing table (the records the filter leaves out) has its date and
\* series_id on a row of the existing table.
C14_DiscardedAreKnown ==
    (pc = "merged" /\ ~Empty(existing_df)) =>
        \A i \in 1..Len(all_data) :
            to_datetime(all_data[i].date) <= get_latest_date(existing_df) =>
                \E j \in 1..Len(existing_df.rows) :
                    /\ existing_df.rows[j].date = to_datetime(all_data[i].date)
                    /\ existing_df.rows[j].series_id = all_data[i].series_id

\* C15: append_new_data called again on what it returned, with the same
\* incoming table, returns that table again.
C15_RepeatIsNoOp ==
    (m_pc = "returned again") =>
        /\ m_again.raised = "none"
        /\ m_again.df.rows = m_result.df.rows

\* the first call appended new rows; the second one has returned
C15_Witness ==
    /\ m_pc = "returned again"
    /\ ~Empty(m_existing)
    /\ Len(m_result.df.rows) > Len(m_existing.rows)
    /\ m_again.df.rows = m_result.df.rows

\* C16: the parser returns one record per data entry, in the order of the
\* response, each with the series_id and series_name it was passed and,
\* for a period M01..M12, the first day of that month of the entry's year
\* as its date.
C16_OneRecordPerEntry ==
    (q_pc = "parsed") =>
        /\ Len(q_records) = Len(q_data)
        /\ \A i \in 1..Len(q_data) :
              /\ q_records[i].series_id = SERIES_IDS[q_series].series_id
              /\ q_records[i].series_name = SERIES_IDS[q_series].series_name
              /\ q_records[i].period = q_data[i].period
              /\ q_records[i].value = float(q_data[i].value)
              /\ \A m \in 1..12 :
                    q_data[i].period = PERIOD_CODES[m] =>
                        /\ q_records[i].date[3] = "01"
                        /\ ~to_datetime_raises(q_records[i].date)
                        /\ to_datetime(q_records[i].date) = int(q_data[i].year) * 12 + m - 1

\* entries of two different months have been parsed
C16_Witness ==
    /\ q_pc = "parsed"
    /\ Len(q_data) >= 2
    /\ Monthly(q_data[1].period) /\ Monthly(q_data[2].period)
    /\ q_data[1].period # q_data[2].period
    /\ Len(q_records) = Len(q_data)
    /\ q_records[2].period = q_data[2].period

====
